---- MODULE Spec2Model ----
(***************************************************************************)
(* Model of NEGEMMInterleavedPrepareBWrapperKernelTemplate<To, use_dot>:   *)
(* the sizing of the pretransposed B buffer, the walk that turns a window  *)
(* into PrepareBWorkload values, configure(), create_workloads() and run().*)
(***************************************************************************)
EXTENDS Integers, Sequences, FiniteSets, TLC

\* ------------------------------------------------------------------ bounds
MaxN == 5          \* largest b->info()->tensor_shape().x()
MaxK == 3          \* largest b->info()->tensor_shape().y()
MaxMultis == 2     \* largest b->info()->tensor_shape().z()
MaxXBlock == 4     \* largest x_block handed back by calculate_block_sizes
MaxKBlock == 2     \* largest k_block handed back by calculate_block_sizes
MaxWalks == 2      \* create_workloads() calls followed per instance
MaxThreads == 2    \* most workers the parallel runtime splits the window among

VARIABLES strategy, phase, failedOp, _Nsize, _Ksize, multis, _block_sizes,
          transformed_b, dstShape0, window,
          workloads, prevWorkloads, nWalks, lastRun, prevRun, pending, scheduled

vars == <<strategy, phase, failedOp, _Nsize, _Ksize, multis, _block_sizes,
          transformed_b, dstShape0, window,
          workloads, prevWorkloads, nWalks, lastRun, prevRun, pending, scheduled>>

\* ----------------------------------------------------------------- helpers
Min(a, b) == IF a < b THEN a ELSE b

\* Kernel<To, use_dot>::strategy of the instantiated template: its
\* out_width(), k_unroll() and sizeof(To).
Strategies ==
    { [out_width |-> 2, k_unroll |-> 1, sizeof_To |-> 4],
      [out_width |-> 2, k_unroll |-> 2, sizeof_To |-> 1],
      [out_width |-> 3, k_unroll |-> 1, sizeof_To |-> 2] }

\* Destination tensors a caller may hand to configure(): shape of the tensor
\* info (<<>> when no shape was established) and
\* offset_first_element_in_bytes().
DstTensors ==
    { [shape |-> <<>>, first |-> 0],
      [shape |-> <<8, 8>>, first |-> 16] }

NoWindow == [x |-> [start |-> 0, end |-> 0, step |-> 0],
             y |-> [start |-> 0, end |-> 0, step |-> 0],
             z |-> [start |-> 0, end |-> 0, step |-> 0]]

NoRun == [win |-> NoWindow, wls |-> <<>>, ok |-> FALSE]

ceil_to_multiple(value, divisor) == ((value + divisor - 1) \div divisor) * divisor

RECURSIVE DimProduct(_)
DimProduct(s) == IF s = <<>> THEN 1 ELSE Head(s) * DimProduct(Tail(s))

\* TensorShape::total_size(); 0 for a shape that was never set
ShapeTotal(s) == IF s = <<>> THEN 0 ELSE DimProduct(s)

\* auto_init_if_empty(info, init): the shape is taken over only when the
\* info has no shape yet.
auto_init_if_empty(shape, init) == IF ShapeTotal(shape) = 0 THEN init ELSE shape

\* b->info()->offset_element_in_bytes(Coordinates(0, 0, multi))
offset_b_of(multi, N, K) == multi * (N * K * strategy.sizeof_To)

\* Window::Dimension values visited by the loop: start, start+step, ... < end
RECURSIVE DimValues(_, _)
DimValues(d, v) ==
    IF v >= d.end THEN <<>> ELSE <<v>> \o DimValues(d, v + d.step)

\* execute_window_loop: DimZ outermost, then DimY, DimX innermost.
RECURSIVE LoopX(_, _, _)
LoopX(xs, y, z) ==
    IF xs = <<>> THEN <<>>
    ELSE <<[x |-> Head(xs), y |-> y, z |-> z]>> \o LoopX(Tail(xs), y, z)

RECURSIVE LoopY(_, _, _)
LoopY(xs, ys, z) ==
    IF ys = <<>> THEN <<>> ELSE LoopX(xs, Head(ys), z) \o LoopY(xs, Tail(ys), z)

RECURSIVE LoopZ(_, _, _)
LoopZ(xs, ys, zs) ==
    IF zs = <<>> THEN <<>> ELSE LoopY(xs, ys, Head(zs)) \o LoopZ(xs, ys, Tail(zs))

execute_window_loop(w) ==
    LoopZ(DimValues(w.x, w.x.start), DimValues(w.y, w.y.start), DimValues(w.z, w.z.start))

\* ------------------------------------------------- for_each_element_in_window
StartOffsetPersisted ==
    IF workloads = <<>> THEN transformed_b.first
    ELSE LET l == workloads[Len(workloads)]
         IN l._offset_transformed_b
            + ceil_to_multiple(l._xmax - l._x0, strategy.out_width)
              * ceil_to_multiple(l._kmax - l._k0, strategy.k_unroll) * strategy.sizeof_To

\* offset_transformed_b at the start of a walk
StartOffset == transformed_b.first

BlockMaxUnclamped(v0, step, limit) == v0 + step

\* xmax / kmax of a block
BlockMax(v0, step, limit) == Min(v0 + step, limit)

RoundedSizeRaw(size, unit) == size

\* x_size / k_size after rounding up
RoundedSize(size, unit) == ceil_to_multiple(size, unit)

PrepareBWorkload(offset_b, offset_transformed_b, x0, xmax, k0, kmax) ==
    [_offset_b |-> offset_b, _offset_transformed_b |-> offset_transformed_b,
     _x0 |-> x0, _xmax |-> xmax, _k0 |-> k0, _kmax |-> kmax]

RECURSIVE WalkCells(_, _, _, _, _)
WalkCells(cells, w, N, K, offset_transformed_b) ==
    IF cells = <<>> THEN <<>>
    ELSE LET coordinates == Head(cells)
             x0 == coordinates.x
             k0 == coordinates.y
             multi == coordinates.z
             offset_b == offset_b_of(multi, N, K)
             xmax == BlockMax(x0, w.x.step, N)
             kmax == BlockMax(k0, w.y.step, K)
             x_size == RoundedSize(xmax - x0, strategy.out_width)
             k_size == RoundedSize(kmax - k0, strategy.k_unroll)
         IN <<PrepareBWorkload(offset_b, offset_transformed_b, x0, xmax, k0, kmax)>>
            \o WalkCells(Tail(cells), w, N, K,
                         offset_transformed_b + x_size * k_size * strategy.sizeof_To)

for_each_element_in_window(w, N, K) ==
    WalkCells(execute_window_loop(w), w, N, K, StartOffset)

\* ------------------------------------------- get_B_pretransposed_array_size
BlockSizesAligned(bs) ==
    /\ bs.x_block % strategy.out_width = 0
    /\ bs.k_block % strategy.k_unroll = 0

get_B_pretransposed_array_size_NoRound(N, K, bs) ==
    LET num_full_k == K \div bs.k_block
        num_full_x == N \div bs.x_block
        left_over_x_size == N % bs.x_block
        left_over_k_size == K % bs.k_block
    IN (num_full_k * bs.k_block * (num_full_x * bs.x_block + left_over_x_size)
        + left_over_k_size * (left_over_x_size + num_full_x * bs.x_block))
       * strategy.sizeof_To

get_B_pretransposed_array_size(N, K, bs) ==
    LET num_full_k == K \div bs.k_block
        num_full_x == N \div bs.x_block
        normal_x_size == bs.x_block
        normal_k_size == bs.k_block
        left_over_x_size == ceil_to_multiple(N % bs.x_block, strategy.out_width)
        left_over_k_size == ceil_to_multiple(K % bs.k_block, strategy.k_unroll)
    IN (num_full_k * normal_k_size * (num_full_x * normal_x_size + left_over_x_size)
        + left_over_k_size * (left_over_x_size + num_full_x * normal_x_size))
       * strategy.sizeof_To

\* ------------------------------------------------------------------ configure
ConfiguredShapeAlways(shape, N, K, bs) == <<get_B_pretransposed_array_size(N, K, bs)>>

\* shape of transformed_b->info() after the auto_init_if_empty call
ConfiguredShape(shape, N, K, bs) ==
    auto_init_if_empty(shape, <<get_B_pretransposed_array_size(N, K, bs)>>)

ConfiguredWindowTruncated(N, K, m, bs) ==
    [x |-> [start |-> 0, end |-> (N \div bs.x_block) * bs.x_block, step |-> bs.x_block],
     y |-> [start |-> 0, end |-> ceil_to_multiple(K, bs.k_block), step |-> bs.k_block],
     z |-> [start |-> 0, end |-> m, step |-> 1]]

\* the window handed to INEKernel::configure
ConfiguredWindow(N, K, m, bs) ==
    [x |-> [start |-> 0, end |-> ceil_to_multiple(N, bs.x_block), step |-> bs.x_block],
     y |-> [start |-> 0, end |-> ceil_to_multiple(K, bs.k_block), step |-> bs.k_block],
     z |-> [start |-> 0, end |-> m, step |-> 1]]

Configure ==
    /\ phase = "Unconfigured"
    /\ \E N \in 1..MaxN, K \in 1..MaxK, m \in 1..MaxMultis,
          xb \in 1..MaxXBlock, kb \in 1..MaxKBlock :
         LET bs == [x_block |-> xb, k_block |-> kb] IN
         /\ multis' = m
         /\ _Nsize' = N
         /\ _Ksize' = K
         /\ _block_sizes' = bs
         /\ IF BlockSizesAligned(bs)
            THEN /\ transformed_b' =
                      [transformed_b EXCEPT !.shape = ConfiguredShape(@, N, K, bs)]
                 /\ window' = ConfiguredWindow(N, K, m, bs)
                 /\ phase' = "Configured"
                 /\ failedOp' = "none"
            ELSE /\ phase' = "Failed"
                 /\ failedOp' = "configure"
                 /\ UNCHANGED <<transformed_b, window>>
    /\ UNCHANGED <<strategy, dstShape0, workloads, prevWorkloads, nWalks,
                   lastRun, prevRun, pending, scheduled>>

\* ------------------------------------------------------------ create_workloads
CreateWorkloads ==
    /\ phase = "Configured"
    /\ nWalks < MaxWalks
    /\ workloads' = for_each_element_in_window(window, _Nsize, _Ksize)
    /\ prevWorkloads' = workloads
    /\ nWalks' = nWalks + 1
    /\ UNCHANGED <<strategy, phase, failedOp, _Nsize, _Ksize, multis, _block_sizes,
                   transformed_b, dstShape0, window, lastRun, prevRun, pending, scheduled>>

\* ------------------------------------------------------------------------ run
DimCount(d) == Len(DimValues(d, d.start))

\* Window::split_window(dimension, id, total): the id-th of total runs of
\* consecutive cells of one dimension, the others left whole
SplitPart(full, dim, id, total) ==
    LET num_it == DimCount(full[dim])
        work == num_it \div total
        rem == num_it % total
        it_start == work * id + Min(rem, id)
        it_end == it_start + work + (IF id < rem THEN 1 ELSE 0)
    IN [full EXCEPT ![dim] = [start |-> full[dim].start + it_start * full[dim].step,
                              end |-> full[dim].start + it_end * full[dim].step,
                              step |-> full[dim].step]]

\* the sub-ranges the parallel runtime hands to its workers
SplitWindow(full, dim, total) == { SplitPart(full, dim, id, total) : id \in 0..(total - 1) }

\* windows whose step or extent disagrees with the configured window
MismatchedWindows(full) ==
    { [full EXCEPT !.x.step = @ + 1],
      [full EXCEPT !.y.end = @ + full.y.step] }

DimWithin(d, f) ==
    /\ d.step = f.step
    /\ d.start >= f.start
    /\ d.end <= f.end
    /\ d.start <= d.end
    /\ (d.start - f.start) % f.step = 0

\* ARM_COMPUTE_ERROR_ON_MISMATCHING_WINDOWS(window, INEKernel::window()) passes
WindowsMatch(win, full) ==
    DimWithin(win.x, full.x) /\ DimWithin(win.y, full.y) /\ DimWithin(win.z, full.z)

RunOutcomeUnchecked(win) ==
    [ok |-> WindowsMatch(win, window),
     wls |-> for_each_element_in_window(win, _Nsize, _Ksize)]

\* run(): whether the window is accepted and the workloads given to transform()
RunOutcome(win) ==
    IF WindowsMatch(win, window)
    THEN [ok |-> TRUE, wls |-> for_each_element_in_window(win, _Nsize, _Ksize)]
    ELSE [ok |-> FALSE, wls |-> <<>>]

\* the parallel runtime splits the configured window among its workers
Schedule ==
    /\ phase = "Configured"
    /\ ~scheduled
    /\ \E dim \in {"x", "y", "z"} :
         \E total \in 1..Min(MaxThreads, DimCount(window[dim])) :
            pending' = SplitWindow(window, dim, total)
    /\ scheduled' = TRUE
    /\ UNCHANGED <<strategy, phase, failedOp, _Nsize, _Ksize, multis, _block_sizes,
                   transformed_b, dstShape0, window, workloads, prevWorkloads, nWalks,
                   lastRun, prevRun>>

Run ==
    /\ phase = "Configured"
    /\ \E win \in pending \cup MismatchedWindows(window) :
         LET r == RunOutcome(win) IN
         /\ lastRun' = [win |-> win, wls |-> r.wls, ok |-> r.ok]
         /\ prevRun' = lastRun
         /\ pending' = pending \ {win}
         /\ IF r.ok
            THEN UNCHANGED <<phase, failedOp>>
            ELSE phase' = "Failed" /\ failedOp' = "run"
    /\ UNCHANGED <<strategy, _Nsize, _Ksize, multis, _block_sizes, transformed_b,
                   dstShape0, window, workloads, prevWorkloads, nWalks, scheduled>>

Init ==
    /\ strategy \in Strategies
    /\ transformed_b \in DstTensors
    /\ dstShape0 = transformed_b.shape
    /\ phase = "Unconfigured"
    /\ failedOp = "none"
    /\ _Nsize = 0 /\ _Ksize = 0 /\ multis = 0
    /\ _block_sizes = [x_block |-> 0, k_block |-> 0]
    /\ window = NoWindow
    /\ workloads = <<>> /\ prevWorkloads = <<>> /\ nWalks = 0
    /\ lastRun = NoRun /\ prevRun = NoRun
    /\ pending = {} /\ scheduled = FALSE

Next == Configure \/ CreateWorkloads \/ Schedule \/ Run

Spec == Init /\ [][Next]_vars

\* ---------------------------------------------------------- derived notions
\* bytes of the destination one block occupies: the clamped extents rounded
\* up to out_width / k_unroll, times the element size
BlockBytes(wl) ==
    ceil_to_multiple(wl._xmax - wl._x0, strategy.out_width)
    * ceil_to_multiple(wl._kmax - wl._k0, strategy.k_unroll) * strategy.sizeof_To

RECURSIVE SumBytes(_)
SumBytes(wls) == IF wls = <<>> THEN 0 ELSE BlockBytes(Head(wls)) + SumBytes(Tail(wls))

InBatch(wl, m) == wl._offset_b = offset_b_of(m, _Nsize, _Ksize)

BatchBlocks(m) == SelectSeq(workloads, LAMBDA wl : InBatch(wl, m))

CeilDiv(a, b) == (a + b - 1) \div b

XCells == CeilDiv(_Nsize, _block_sizes.x_block)
KCells == CeilDiv(_Ksize, _block_sizes.k_block)

Planned == phase = "Configured" /\ nWalks > 0

RaggedX(wl) == (wl._xmax - wl._x0) % strategy.out_width # 0

CellsOf(w) == LET cs == execute_window_loop(w) IN { cs[i] : i \in DOMAIN cs }

BytesDisjoint(a, b) ==
    \/ a._offset_transformed_b + BlockBytes(a) <= b._offset_transformed_b
    \/ b._offset_transformed_b + BlockBytes(b) <= a._offset_transformed_b

\* -------------------------------------------------------------------- claims

\* C1: for each batch plane, the block sizes planned by create_workloads over
\* the configured window add up to get_B_pretransposed_array_size(N, K, bs).
C1_PlaneSumEqualsSize ==
    Planned =>
        \A m \in 0..(multis - 1) :
            SumBytes(BatchBlocks(m))
                = get_B_pretransposed_array_size(_Nsize, _Ksize, _block_sizes)

C1_Witness ==
    /\ Planned
    /\ multis = 1
    /\ XCells >= 2
    /\ KCells >= 2
    /\ \E i \in DOMAIN workloads : RaggedX(workloads[i])
    /\ SumBytes(workloads) = get_B_pretransposed_array_size(_Nsize, _Ksize, _block_sizes)

\* C2: after configure on a destination without a shape, every planned block
\* of every batch plane lies inside the destination buffer of
\* get_B_pretransposed_array_size bytes, and the block sizes of the whole
\* window add up to that size.
C2_AllBlocksInsideBuffer ==
    (Planned /\ dstShape0 = <<>>) =>
        /\ \A i \in DOMAIN workloads :
             /\ workloads[i]._offset_transformed_b >= transformed_b.first
             /\ workloads[i]._offset_transformed_b + BlockBytes(workloads[i])
                  <= transformed_b.first + ShapeTotal(transformed_b.shape)
        /\ SumBytes(workloads) = ShapeTotal(transformed_b.shape)

\* C3: two run() calls on sub-windows with no cell in common write pairwise
\* disjoint destination byte ranges.
C3_SubRangeWritesDisjoint ==
    (prevRun.ok /\ lastRun.ok /\ CellsOf(prevRun.win) \cap CellsOf(lastRun.win) = {}) =>
        \A i \in DOMAIN prevRun.wls, j \in DOMAIN lastRun.wls :
            BytesDisjoint(prevRun.wls[i], lastRun.wls[j])

\* C4: within one batch plane every point of [0,N) x [0,K) lies in exactly one
\* planned rectangle [x0,xmax) x [k0,kmax), and every block has
\* x0 < xmax <= N and k0 < kmax <= K.
C4_ExactCover ==
    Planned =>
        /\ \A i \in DOMAIN workloads :
             /\ workloads[i]._x0 < workloads[i]._xmax
             /\ workloads[i]._xmax <= _Nsize
             /\ workloads[i]._k0 < workloads[i]._kmax
             /\ workloads[i]._kmax <= _Ksize
        /\ \A m \in 0..(multis - 1), x \in 0..(_Nsize - 1), k \in 0..(_Ksize - 1) :
             Cardinality({ i \in DOMAIN workloads :
                             /\ InBatch(workloads[i], m)
                             /\ workloads[i]._x0 <= x /\ x < workloads[i]._xmax
                             /\ workloads[i]._k0 <= k /\ k < workloads[i]._kmax }) = 1

C4_Witness ==
    /\ Planned
    /\ XCells >= 2
    /\ KCells >= 2
    /\ _Nsize % _block_sizes.x_block # 0
    /\ _Ksize % _block_sizes.k_block # 0
    /\ \E i \in DOMAIN workloads :
         workloads[i]._xmax = _Nsize /\ workloads[i]._kmax = _Ksize

\* C5: in the order create_workloads emits them, the first block starts at
\* the first byte of the destination and each next block starts where the
\* previous one, with its rounded-up size, ends.
C5_DestinationContiguous ==
    (Planned /\ workloads # <<>>) =>
        /\ workloads[1]._offset_transformed_b = transformed_b.first
        /\ \A i \in 1..(Len(workloads) - 1) :
             /\ workloads[i + 1]._offset_transformed_b
                  = workloads[i]._offset_transformed_b + BlockBytes(workloads[i])
             /\ workloads[i + 1]._offset_transformed_b
                  > workloads[i]._offset_transformed_b

C5_Witness ==
    /\ Planned
    /\ Len(workloads) >= 3
    /\ transformed_b.first > 0
    /\ \E i \in 1..(Len(workloads) - 1) :
         /\ RaggedX(workloads[i])
         /\ workloads[i + 1]._offset_transformed_b
              = workloads[i]._offset_transformed_b + BlockBytes(workloads[i])

\* C6: configure keeps an established destination shape, gives a destination
\* without a shape the 1-D shape of get_B_pretransposed_array_size, and
\* transforms nothing.
C6_ConfigureShape ==
    [][(phase = "Unconfigured" /\ phase' # "Unconfigured") =>
          /\ (transformed_b.shape # <<>> => transformed_b'.shape = transformed_b.shape)
          /\ (transformed_b'.shape # transformed_b.shape => transformed_b.shape = <<>>)
          /\ ((phase' = "Configured" /\ transformed_b.shape = <<>>) =>
                transformed_b'.shape
                  = <<get_B_pretransposed_array_size(_Nsize', _Ksize', _block_sizes')>>)
          /\ transformed_b'.first = transformed_b.first
          /\ lastRun' = NoRun /\ prevRun' = NoRun]_vars

C6_Witness ==
    /\ phase = "Configured"
    /\ dstShape0 = <<8, 8>>
    /\ transformed_b.shape = <<8, 8>>
    /\ get_B_pretransposed_array_size(_Nsize, _Ksize, _block_sizes) # 64
    /\ lastRun = NoRun

\* C7: a configure that fails on misaligned block sizes has neither given the
\* destination a shape nor set the window, and a run that fails on a
\* mismatching window has transformed no block.
C7_NoWorkAfterFailedValidation ==
    phase = "Failed" =>
        /\ failedOp \in {"configure", "run"}
        /\ failedOp = "configure" =>
             /\ ~BlockSizesAligned(_block_sizes)
             /\ transformed_b.shape = dstShape0
             /\ window = NoWindow
             /\ workloads = <<>>
             /\ lastRun = NoRun
        /\ failedOp = "run" =>
             /\ ~lastRun.ok
             /\ lastRun.wls = <<>>

C7_Witness ==
    /\ phase = "Failed"
    /\ failedOp = "run"
    /\ prevRun.ok
    /\ lastRun.win.x.step # window.x.step
    /\ lastRun.wls = <<>>

\* C8: two create_workloads calls after one configure give the same sequence
\* of workloads, and run over the whole configured window transforms that
\* same sequence.
C8_ReplanIdentical ==
    /\ (phase = "Configured" /\ nWalks >= 2) => workloads = prevWorkloads
    /\ (Planned /\ lastRun.ok /\ lastRun.win = window) => lastRun.wls = workloads

C8_Witness ==
    /\ phase = "Configured"
    /\ nWalks = 2
    /\ Len(workloads) >= 4
    /\ workloads = prevWorkloads
    /\ lastRun.ok
    /\ lastRun.win = window
    /\ lastRun.wls = workloads

\* C9: every block run() transforms for an accepted sub-window is the block
\* create_workloads produces for the same cell of the configured window.
C9_RunAgreesWithPlan ==
    (Planned /\ lastRun.ok) =>
        \A i \in DOMAIN lastRun.wls :
            \E j \in DOMAIN workloads : workloads[j] = lastRun.wls[i]

\* C10: create_workloads emits ceil(N/x_block) * ceil(K/k_block) * multis
\* blocks, batch outermost, then K, X innermost, and the source offset of a
\* block is the one of its batch.
C10_OneBlockPerCellInOrder ==
    Planned =>
        /\ Len(workloads) = XCells * KCells * multis
        /\ \A i \in DOMAIN workloads :
             /\ workloads[i]._x0 = ((i - 1) % XCells) * _block_sizes.x_block
             /\ workloads[i]._k0 = (((i - 1) \div XCells) % KCells) * _block_sizes.k_block
             /\ InBatch(workloads[i], (i - 1) \div (XCells * KCells))

C10_Witness ==
    /\ Planned
    /\ multis = 2
    /\ XCells >= 2
    /\ KCells >= 2
    /\ _Nsize % _block_sizes.x_block # 0
    /\ Len(workloads) = XCells * KCells * multis
    /\ workloads[XCells + 1]._k0 = _block_sizes.k_block
    /\ workloads[XCells * KCells + 1]._offset_b # workloads[1]._offset_b
====
